---- MODULE Spec2Model ----
(***************************************************************************)
(* Urdu Speech Writer: the two pipeline variants                           *)
(*   "local"  src/UrduSpeechWriter.py      (device recognizer)             *)
(*   "cloud"  src/UrduSpeechWriterCloud.py (audio sent to the endpoint)    *)
(* A text is a sequence of one-character strings, so that strip, replace   *)
(* and startswith are computed character by character. The cross mark that *)
(* opens every failure message is written "#".                             *)
(***************************************************************************)
EXTENDS Integers, Sequences, FiniteSets, TLC

VARIABLES
    variant,          \* which script the session runs: "local" or "cloud"
    original_urdu,    \* st.session_state.original_urdu
    urdu_edit,        \* st.session_state.urdu_edit
    last_source,      \* st.session_state.last_source
    urdu_output_txt,  \* blocks appended to urdu_output.txt, oldest first
    urdu_output_html, \* blocks appended to urdu_output.html, oldest first
    last,             \* what the latest run of main() did and showed
    call              \* a remote call made directly: its arguments and its outcome

vars == <<variant, original_urdu, urdu_edit, last_source,
          urdu_output_txt, urdu_output_html, last, call>>

draft == <<original_urdu, urdu_edit, last_source>>

files == <<urdu_output_txt, urdu_output_html>>

(***************************************************************************)
(* Bounds                                                                  *)
(***************************************************************************)
MaxRetries == 3

MaxLog == 2

MaxTokens == 4

MaxText == 5

(***************************************************************************)
(* Texts                                                                   *)
(***************************************************************************)
Empty == << >>

CrossMark == "#"

\* str.isspace() on the characters of the model
IsSpace(c) == c \in {" ", "\n"}

RECURSIVE LStrip(_)
LStrip(s) ==
    IF s # Empty /\ IsSpace(Head(s)) THEN LStrip(Tail(s)) ELSE s

RECURSIVE RStrip(_)
RStrip(s) ==
    IF s # Empty /\ IsSpace(s[Len(s)]) THEN RStrip(SubSeq(s, 1, Len(s) - 1)) ELSE s

\* str.strip()
Strip(s) == RStrip(LStrip(s))

\* str.startswith(p)
StartsWith(s, p) == Len(s) >= Len(p) /\ SubSeq(s, 1, Len(p)) = p

\* str.replace(old, new, 1): the first occurrence only
RECURSIVE ReplaceFirst(_, _, _)
ReplaceFirst(s, old, new) ==
    IF s = Empty THEN Empty
    ELSE IF StartsWith(s, old)
         THEN new \o SubSeq(s, Len(old) + 1, Len(s))
         ELSE <<Head(s)>> \o ReplaceFirst(Tail(s), old, new)

\* str.replace(old, new) for a non-empty old: every non-overlapping occurrence,
\* scanning from the left
RECURSIVE Replace(_, _, _)
Replace(s, old, new) ==
    IF s = Empty THEN Empty
    ELSE IF StartsWith(s, old)
         THEN new \o Replace(SubSeq(s, Len(old) + 1, Len(s)), old, new)
         ELSE <<Head(s)>> \o Replace(Tail(s), old, new)

\* the truth value of a str
Truthy(s) == s # Empty

\* the first whitespace-free run of s, s not beginning with whitespace
RECURSIVE Word(_)
Word(s) ==
    IF s = Empty \/ IsSpace(Head(s)) THEN Empty ELSE <<Head(s)>> \o Word(Tail(s))

\* str.split(): the whitespace-free runs of s, in order
RECURSIVE Split(_)
Split(s) ==
    LET t == LStrip(s)
        w == Word(t)
    IN  IF t = Empty THEN << >>
        ELSE <<w>> \o Split(SubSeq(t, Len(w) + 1, Len(t)))

\* sep.join(items)
RECURSIVE Join(_, _)
Join(items, sep) ==
    IF items = << >> THEN Empty
    ELSE IF Len(items) = 1 THEN items[1]
    ELSE items[1] \o sep \o Join(Tail(items), sep)

(***************************************************************************)
(* Failure messages                                                        *)
(***************************************************************************)
\* openrouter_translate_to_urdu's last line
FailedTranslationLocal ==
    <<"#", " ", "F", "a", "i", "l", "e", "d", " ", "t", "o", " ", "g", "e",
      "t", " ", "t", "r", "a", "n", "s", "l", "a", "t", "i", "o", "n", " ",
      "a", "f", "t", "e", "r", " ", "r", "e", "t", "r", "i", "e", "s", ".">>

\* openrouter_proofread_urdu's last line
FailedProofreadLocal ==
    <<"#", " ", "F", "a", "i", "l", "e", "d", " ", "t", "o", " ", "p", "r",
      "o", "o", "f", "r", "e", "a", "d", " ", "a", "f", "t", "e", "r", " ",
      "r", "e", "t", "r", "i", "e", "s", ".">>

\* transcribe_audio_openrouter's last line
FailedTranscribeCloud ==
    <<"#", " ", "F", "a", "i", "l", "e", "d", " ", "t", "o", " ", "t", "r",
      "a", "n", "s", "c", "r", "i", "b", "e", " ", "a", "u", "d", "i", "o",
      ".">>

\* translate_to_urdu's last line
FailedTranslationCloud ==
    <<"#", " ", "F", "a", "i", "l", "e", "d", " ", "t", "o", " ", "t", "r",
      "a", "n", "s", "l", "a", "t", "e", ".">>

(***************************************************************************)
(* Python values: None, a str, a number, a list, and the dict that the     *)
(* proofreading prompt asks for (keys "corrected" and "changes", either of *)
(* which may be absent).                                                   *)
(***************************************************************************)
PNone == [t |-> "none"]

PStr(s) == [t |-> "str", s |-> s]

PNum == [t |-> "num"]

PList(items) == [t |-> "list", items |-> items]

Absent == [t |-> "absent"]

PDict(corrected, changes) == [t |-> "dict", corrected |-> corrected, changes |-> changes]

\* dict.get(key, default), d[key] being Absent when the key is missing
Get(v, default) == IF v = Absent THEN default ELSE v

\* the truth value of a Python value
IsTrue(v) ==
    CASE v.t = "none" -> FALSE
      [] v.t = "str"  -> Truthy(v.s)
      [] v.t = "list" -> v.items # << >>
      [] OTHER        -> TRUE

(***************************************************************************)
(* Reply texts of the model and what json.loads makes of each              *)
(***************************************************************************)
\* a plain sentence, padded with blanks: not JSON
ReplyPlain == <<" ", "b", " ">>

\* {"corrected":" b "}
ReplyObject ==
    <<"{", "\"", "c", "o", "r", "r", "e", "c", "t", "e", "d", "\"", ":",
      "\"", " ", "b", " ", "\"", "}">>

\* {"corrected":"c","changes":[{}]}
ReplyObjectChanges ==
    <<"{", "\"", "c", "o", "r", "r", "e", "c", "t", "e", "d", "\"", ":",
      "\"", "c", "\"", ",", "\"", "c", "h", "a", "n", "g", "e", "s", "\"",
      ":", "[", "{", "}", "]", "}">>

\* {}
ReplyNoKey == <<"{", "}">>

\* []
ReplyArray == <<"[", "]">>

\* {"corrected":5}
ReplyNumber ==
    <<"{", "\"", "c", "o", "r", "r", "e", "c", "t", "e", "d", "\"", ":",
      "5", "}">>

\* {"corrected":"c","changes":"x"}
ReplyBadChanges ==
    <<"{", "\"", "c", "o", "r", "r", "e", "c", "t", "e", "d", "\"", ":",
      "\"", "c", "\"", ",", "\"", "c", "h", "a", "n", "g", "e", "s", "\"",
      ":", "\"", "x", "\"", "}">>

\* json.loads(text): ok is FALSE when it raises
JsonLoads(text) ==
    CASE text = ReplyObject ->
             [ok |-> TRUE, val |-> PDict(PStr(<<" ", "b", " ">>), Absent)]
      [] text = ReplyObjectChanges ->
             [ok |-> TRUE, val |-> PDict(PStr(<<"c">>), PList(<<"{}">>))]
      [] text = ReplyBadChanges ->
             [ok |-> TRUE, val |-> PDict(PStr(<<"c">>), PStr(<<"x">>))]
      [] text = ReplyNoKey  -> [ok |-> TRUE, val |-> PDict(Absent, Absent)]
      [] text = ReplyArray  -> [ok |-> TRUE, val |-> PList(<< >>)]
      [] text = ReplyNumber -> [ok |-> TRUE, val |-> PDict(PNum, Absent)]
      [] OTHER              -> [ok |-> FALSE, val |-> PNone]

(***************************************************************************)
(* What the remote endpoint does on one attempt                            *)
(***************************************************************************)
\* requests.exceptions.Timeout
Timeout == [kind |-> "timeout"]

\* any other exception of requests.post, such as a ConnectionError
ConnectionError == [kind |-> "error"]

\* a response whose body is not JSON
NotJson == [json |-> FALSE]

\* a JSON body without "choices"
NoChoices == [json |-> TRUE, choices |-> FALSE]

\* a JSON body with choices[0].message.content = content
Choices(content) == [json |-> TRUE, choices |-> TRUE, content |-> content]

Response(status, body) == [kind |-> "response", status |-> status, body |-> body]

OK == 200

Delay == 2

DefaultRetries == 2

\* what an attempt does that the user or the endpoint can observe
Post == [act |-> "post"]

Warning == [act |-> "warning"]

Sleep(secs) == [act |-> "sleep", secs |-> secs]

\* how one pass of a retry loop ends
Continue(effects) == [tag |-> "continue", val |-> PNone, effects |-> effects]

Return(val, effects) == [tag |-> "return", val |-> val, effects |-> effects]

Raise(effects) == [tag |-> "raise", val |-> PNone, effects |-> effects]

\* a returned 2-tuple
Pair(fst, snd) == [t |-> "tuple", fst |-> fst, snd |-> snd]

(***************************************************************************)
(* src/UrduSpeechWriter.py: the remote calls. Each ...Attempt is one pass   *)
(* of the function's for loop, given what the endpoint does on it: o.       *)
(***************************************************************************)
\* the except clauses without their time.sleep(2)
WarnWithoutSleep == <<Warning>>

\* the two except clauses: a warning, then time.sleep(2)
WarnAndSleep == <<Warning, Sleep(Delay)>>

\* lines 37-48 with the translation kept and the loop not left
LocalTranslateNoReturn(o) ==
    CASE o.kind = "timeout" -> Continue(<<Post>> \o WarnAndSleep)
      [] o.kind = "error"   -> Continue(<<Post>> \o WarnAndSleep)
      [] OTHER ->
           IF ~o.body.json THEN Continue(<<Post>> \o WarnAndSleep)
           ELSE IF ~o.body.choices THEN Continue(<<Post>>)
           ELSE IF o.body.content.t # "str" THEN Continue(<<Post>> \o WarnAndSleep)
           ELSE Continue(<<Post>>)

\* lines 37-48
LocalTranslateAttempt(o) ==
    CASE o.kind = "timeout" -> Continue(<<Post>> \o WarnAndSleep)
      [] o.kind = "error"   -> Continue(<<Post>> \o WarnAndSleep)
      [] OTHER ->
           IF ~o.body.json
           THEN Continue(<<Post>> \o WarnAndSleep)          \* response.json() raises
           ELSE IF ~o.body.choices
           THEN Continue(<<Post>>)                          \* no "choices": next pass
           ELSE IF o.body.content.t # "str"
           THEN Continue(<<Post>> \o WarnAndSleep)          \* None.strip() raises
           ELSE Return(PStr(Strip(o.body.content.s)), <<Post>>)

\* lines 74-80, text being a non-empty str
LocalParseReply(text) ==
    LET fallback == PDict(PStr(Strip(text)), PList(<< >>))
        parsed   == JsonLoads(text)
        result   == parsed.val
    IN  IF ~parsed.ok THEN fallback
        ELSE IF result.t # "dict" THEN fallback             \* no .get: AttributeError
        ELSE LET corrected == Get(result.corrected, PStr(Empty))
             IN  IF corrected.t # "str" THEN fallback       \* no .strip: AttributeError
                 ELSE PDict(PStr(Strip(corrected.s)), Get(result.changes, PList(<< >>)))

\* lines 66-86
LocalProofreadAttempt(o) ==
    CASE o.kind = "timeout" -> Continue(<<Post>> \o WarnAndSleep)
      [] o.kind = "error"   -> Continue(<<Post>> \o WarnAndSleep)
      [] OTHER ->
           IF ~o.body.json
           THEN Continue(<<Post>> \o WarnAndSleep)
           ELSE LET text == IF o.body.choices THEN o.body.content ELSE PNone
                IN  IF IsTrue(text)
                    THEN Return(Pair(LocalParseReply(text.s), PNone), <<Post>>)
                    ELSE Continue(<<Post>>)

(***************************************************************************)
(* src/UrduSpeechWriterCloud.py: the remote calls. Only a timeout is       *)
(* caught; any other exception leaves the function.                        *)
(***************************************************************************)
\* resp.json()["choices"][0]["message"]["content"] raises
BadBody(body) == ~body.json \/ ~body.choices

\* lines 40-49
TranscribeAttempt(o) ==
    CASE o.kind = "timeout" -> Continue(<<Post>> \o WarnAndSleep)
      [] o.kind = "error"   -> Raise(<<Post>>)
      [] OTHER ->
           IF o.status # OK THEN Continue(<<Post, Warning>>)
           ELSE IF BadBody(o.body) \/ o.body.content.t # "str" THEN Raise(<<Post>>)
           ELSE Return(PStr(Strip(o.body.content.s)), <<Post>>)

\* lines 62-69
CloudTranslateAttempt(o) ==
    CASE o.kind = "timeout" -> Continue(<<Post>> \o WarnAndSleep)
      [] o.kind = "error"   -> Raise(<<Post>>)
      [] OTHER ->
           IF o.status # OK THEN Continue(<<Post>>)
           ELSE IF BadBody(o.body) \/ o.body.content.t # "str" THEN Raise(<<Post>>)
           ELSE Return(PStr(Strip(o.body.content.s)), <<Post>>)

\* lines 92-96, text being a str or None
CloudParseReply(text) ==
    LET fallback == Pair(text, PList(<< >>))
        parsed   == IF text.t = "str" THEN JsonLoads(text.s)
                    ELSE [ok |-> FALSE, val |-> PNone]      \* json.loads(None): TypeError
        result   == parsed.val
    IN  IF ~parsed.ok THEN fallback
        ELSE IF result.t # "dict" THEN fallback
        ELSE Pair(Get(result.corrected, PStr(Empty)), Get(result.changes, PList(<< >>)))

\* lines 87-99
CloudProofreadAttempt(o) ==
    CASE o.kind = "timeout" -> Continue(<<Post>> \o WarnAndSleep)
      [] o.kind = "error"   -> Raise(<<Post>>)
      [] OTHER ->
           IF o.status # OK THEN Continue(<<Post>>)
           ELSE IF BadBody(o.body) THEN Raise(<<Post>>)
           ELSE Return(CloudParseReply(o.body.content), <<Post>>)

(***************************************************************************)
(* The retry loops: for attempt in range(retries), outs[i] being what the  *)
(* endpoint does on pass i, and the value returned after the loop.         *)
(***************************************************************************)
Functions ==
    [local |-> {"translate", "proofread"},
     cloud |-> {"transcribe", "translate", "proofread"}]

Attempt(v, fn, o) ==
    CASE v = "local" /\ fn = "translate"  -> LocalTranslateAttempt(o)
      [] v = "local" /\ fn = "proofread"  -> LocalProofreadAttempt(o)
      [] v = "cloud" /\ fn = "transcribe" -> TranscribeAttempt(o)
      [] v = "cloud" /\ fn = "translate"  -> CloudTranslateAttempt(o)
      [] v = "cloud" /\ fn = "proofread"  -> CloudProofreadAttempt(o)

\* the return statement after the loop
Exhausted(v, fn) ==
    CASE v = "local" /\ fn = "translate"  -> PStr(FailedTranslationLocal)
      [] v = "local" /\ fn = "proofread"  -> Pair(PNone, PStr(FailedProofreadLocal))
      [] v = "cloud" /\ fn = "transcribe" -> PStr(FailedTranscribeCloud)
      [] v = "cloud" /\ fn = "translate"  -> PStr(FailedTranslationCloud)
      [] v = "cloud" /\ fn = "proofread"  -> Pair(PNone, PList(<< >>))

RECURSIVE RetryLoop(_, _, _, _, _)
RetryLoop(v, fn, retries, outs, attempt) ==
    IF attempt >= retries
    THEN [tag |-> "return", val |-> Exhausted(v, fn), effects |-> << >>, exhausted |-> TRUE]
    ELSE LET a == Attempt(v, fn, outs[attempt + 1])
         IN  IF a.tag = "continue"
             THEN LET rest == RetryLoop(v, fn, retries, outs, attempt + 1)
                  IN  [rest EXCEPT !.effects = a.effects \o @]
             ELSE [tag |-> a.tag, val |-> a.val, effects |-> a.effects, exhausted |-> FALSE]

\* a call of the named function of the variant
RemoteCall(v, fn, retries, outs) == RetryLoop(v, fn, retries, outs, 0)

(***************************************************************************)
(* difflib, as diff_text uses it: ndiff(a, b) on two lists of tokens.      *)
(* Indices are Python's: x[i] of the source is x[i + 1] here, and a range  *)
(* lo..hi leaves hi out. No token is junk (linejunk is None, and a token   *)
(* holds no blank for charjunk); lists of 200 items or more, where         *)
(* SequenceMatcher sets popular items aside, are beyond the bounds.        *)
(***************************************************************************)
\* how far a[i:ahi] and b[j:bhi] agree from their first items on
RECURSIVE RunLength(_, _, _, _, _, _)
RunLength(a, b, i, j, ahi, bhi) ==
    IF i < ahi /\ j < bhi /\ a[i + 1] = b[j + 1]
    THEN 1 + RunLength(a, b, i + 1, j + 1, ahi, bhi)
    ELSE 0

Match(i, j, size) == [i |-> i, j |-> j, size |-> size]

\* SequenceMatcher.find_longest_match: the longest block common to a[alo:ahi]
\* and b[blo:bhi]; of the longest, the one that starts earliest in a, and of
\* those the one that starts earliest in b
find_longest_match(a, b, alo, ahi, blo, bhi) ==
    LET runs == {Match(i, j, RunLength(a, b, i, j, ahi, bhi)) :
                     i \in alo..(ahi - 1), j \in blo..(bhi - 1)}
        Before(m, n) ==
            \/ m.size > n.size
            \/ m.size = n.size /\ (m.i < n.i \/ (m.i = n.i /\ m.j < n.j))
    IN  IF \A m \in runs : m.size = 0 THEN Match(alo, blo, 0)
        ELSE CHOOSE m \in runs : \A n \in runs \ {m} : Before(m, n)

\* the blocks that get_matching_blocks collects, sorted
RECURSIVE MatchingBlocks(_, _, _, _, _, _)
MatchingBlocks(a, b, alo, ahi, blo, bhi) ==
    LET x == find_longest_match(a, b, alo, ahi, blo, bhi)
        i == x.i
        j == x.j
        k == x.size
    IN  IF k = 0 THEN << >>
        ELSE (IF alo < i /\ blo < j THEN MatchingBlocks(a, b, alo, i, blo, j) ELSE << >>)
             \o <<x>> \o
             (IF i + k < ahi /\ j + k < bhi
              THEN MatchingBlocks(a, b, i + k, ahi, j + k, bhi) ELSE << >>)

\* adjacent blocks are made one
RECURSIVE Collapse(_)
Collapse(blocks) ==
    IF Len(blocks) < 2 THEN blocks
    ELSE LET m == blocks[1]
             n == blocks[2]
         IN  IF m.i + m.size = n.i /\ m.j + m.size = n.j
             THEN Collapse(<<Match(m.i, m.j, m.size + n.size)>>
                           \o SubSeq(blocks, 3, Len(blocks)))
             ELSE <<m>> \o Collapse(Tail(blocks))

\* SequenceMatcher.get_matching_blocks, the closing block of size 0 included
get_matching_blocks(a, b) ==
    Collapse(MatchingBlocks(a, b, 0, Len(a), 0, Len(b))) \o <<Match(Len(a), Len(b), 0)>>

Opcode(tag, i1, i2, j1, j2) == [tag |-> tag, i1 |-> i1, i2 |-> i2, j1 |-> j1, j2 |-> j2]

RECURSIVE Opcodes(_, _, _)
Opcodes(blocks, i, j) ==
    IF blocks = << >> THEN << >>
    ELSE LET m   == Head(blocks)
             tag == IF i < m.i /\ j < m.j THEN "replace"
                    ELSE IF i < m.i THEN "delete"
                    ELSE IF j < m.j THEN "insert" ELSE ""
         IN  (IF tag # "" THEN <<Opcode(tag, i, m.i, j, m.j)>> ELSE << >>)
             \o (IF m.size > 0
                 THEN <<Opcode("equal", m.i, m.i + m.size, m.j, m.j + m.size)>>
                 ELSE << >>)
             \o Opcodes(Tail(blocks), m.i + m.size, m.j + m.size)

\* SequenceMatcher.get_opcodes
get_opcodes(a, b) == Opcodes(get_matching_blocks(a, b), 0, 0)

RECURSIVE Sizes(_)
Sizes(blocks) == IF blocks = << >> THEN 0 ELSE Head(blocks).size + Sizes(Tail(blocks))

\* SequenceMatcher.ratio() as the fraction 2 * matches / length, kept as the
\* pair of its terms; the ratio of two empty sequences is 1
ratio(a, b) ==
    IF Len(a) + Len(b) = 0 THEN [num |-> 1, den |-> 1]
    ELSE [num |-> 2 * Sizes(get_matching_blocks(a, b)), den |-> Len(a) + Len(b)]

\* r > s and r >= s for two such fractions
Above(r, s) == r.num * s.den > s.num * r.den

AtLeast(r, s) == r.num * s.den >= s.num * r.den

\* _fancy_replace's best_ratio at the start, and its cutoff
BestRatio == [num |-> 74, den |-> 100]

Cutoff == [num |-> 75, den |-> 100]

\* one line of the delta: the two-character prefix, then the item
Line(tag, item) == <<tag, " ">> \o item

\* Differ._dump
_dump(tag, x, lo, hi) == [k \in 1..(hi - lo) |-> Line(tag, x[lo + k])]

\* Differ._plain_replace: the shorter block first
_plain_replace(a, alo, ahi, b, blo, bhi) ==
    IF bhi - blo < ahi - alo
    THEN _dump("+", b, blo, bhi) \o _dump("-", a, alo, ahi)
    ELSE _dump("-", a, alo, ahi) \o _dump("+", b, blo, bhi)

Repeat(c, n) == [k \in 1..n |-> c]

\* the marks under the first and under the second item of a synch pair
RECURSIVE ATags(_)
ATags(ops) ==
    IF ops = << >> THEN Empty
    ELSE LET op == Head(ops)
             la == op.i2 - op.i1
         IN  (CASE op.tag = "replace" -> Repeat("^", la)
                [] op.tag = "delete"  -> Repeat("-", la)
                [] op.tag = "insert"  -> Empty
                [] op.tag = "equal"   -> Repeat(" ", la))
             \o ATags(Tail(ops))

RECURSIVE BTags(_)
BTags(ops) ==
    IF ops = << >> THEN Empty
    ELSE LET op == Head(ops)
             lb == op.j2 - op.j1
         IN  (CASE op.tag = "replace" -> Repeat("^", lb)
                [] op.tag = "delete"  -> Empty
                [] op.tag = "insert"  -> Repeat("+", lb)
                [] op.tag = "equal"   -> Repeat(" ", lb))
             \o BTags(Tail(ops))

\* difflib._keep_original_ws
_keep_original_ws(s, tag_s) ==
    LET n == IF Len(s) < Len(tag_s) THEN Len(s) ELSE Len(tag_s)
    IN  [k \in 1..n |-> IF tag_s[k] = " " /\ IsSpace(s[k]) THEN s[k] ELSE tag_s[k]]

\* the "? " line that points at the changed characters of an item
Hint(tags) == <<"?", " ">> \o tags \o <<"\n">>

\* Differ._qformat
_qformat(aline, bline, atags, btags) ==
    LET at == RStrip(_keep_original_ws(aline, atags))
        bt == RStrip(_keep_original_ws(bline, btags))
    IN  <<Line("-", aline)>> \o (IF at # Empty THEN <<Hint(at)>> ELSE << >>)
        \o <<Line("+", bline)>> \o (IF bt # Empty THEN <<Hint(bt)>> ELSE << >>)

\* the pairs _fancy_replace looks at, in the order of its two loops: j, then i
Earlier(p, q) == p.j < q.j \/ (p.j = q.j /\ p.i < q.i)

RECURSIVE _fancy_replace(_, _, _, _, _, _)
RECURSIVE _fancy_helper(_, _, _, _, _, _)

\* Differ._fancy_replace
_fancy_replace(a, alo, ahi, b, blo, bhi) ==
    LET pairs == {[i |-> i, j |-> j] : i \in alo..(ahi - 1), j \in blo..(bhi - 1)}
        equal == {p \in pairs : a[p.i + 1] = b[p.j + 1]}
        R(p)  == ratio(a[p.i + 1], b[p.j + 1])
        close == {p \in pairs \ equal : Above(R(p), BestRatio)}
        \* the last pair to raise best_ratio: the first pair of the best ratio
        best  == CHOOSE p \in close :
                     \A q \in close \ {p} :
                         Above(R(p), R(q)) \/ (~Above(R(q), R(p)) /\ Earlier(p, q))
        eq    == CHOOSE p \in equal : \A q \in equal \ {p} : Earlier(p, q)
        synch == close # {} /\ AtLeast(R(best), Cutoff)
    IN  IF ~synch /\ equal = {}
        THEN _plain_replace(a, alo, ahi, b, blo, bhi)
        ELSE LET at   == IF synch THEN best ELSE eq
                 aelt == a[at.i + 1]
                 belt == b[at.j + 1]
                 ops  == get_opcodes(aelt, belt)
             IN  _fancy_helper(a, alo, at.i, b, blo, at.j)
                 \o (IF synch THEN _qformat(aelt, belt, ATags(ops), BTags(ops))
                     ELSE <<Line(" ", aelt)>>)
                 \o _fancy_helper(a, at.i + 1, ahi, b, at.j + 1, bhi)

\* Differ._fancy_helper
_fancy_helper(a, alo, ahi, b, blo, bhi) ==
    IF alo < ahi
    THEN IF blo < bhi THEN _fancy_replace(a, alo, ahi, b, blo, bhi)
         ELSE _dump("-", a, alo, ahi)
    ELSE IF blo < bhi THEN _dump("+", b, blo, bhi)
    ELSE << >>

RECURSIVE Deltas(_, _, _)
Deltas(a, b, ops) ==
    IF ops = << >> THEN << >>
    ELSE LET op == Head(ops)
         IN  (CASE op.tag = "replace" -> _fancy_replace(a, op.i1, op.i2, b, op.j1, op.j2)
                [] op.tag = "delete"  -> _dump("-", a, op.i1, op.i2)
                [] op.tag = "insert"  -> _dump("+", b, op.j1, op.j2)
                [] op.tag = "equal"   -> _dump(" ", a, op.i1, op.i2))
             \o Deltas(a, b, Tail(ops))

\* Differ.compare
compare(a, b) == Deltas(a, b, get_opcodes(a, b))

\* difflib.ndiff(a, b)
ndiff(a, b) == compare(a, b)

(***************************************************************************)
(* diff_text                                                               *)
(***************************************************************************)
\* f"**{text}**" and f"~~{text}~~"
Inserted(text) == <<"*", "*">> \o text \o <<"*", "*">>

Deleted(text) == <<"~", "~">> \o text \o <<"~", "~">>

\* token[1:]
From1(token) == SubSeq(token, 2, Len(token))

\* token[2:]
From2(token) == SubSeq(token, 3, Len(token))

\* src/UrduSpeechWriter.py lines 93-100: what one line of the delta adds to out
LocalOut(token) ==
    IF StartsWith(token, <<"+", " ">>) THEN <<Inserted(From2(token))>>
    ELSE IF StartsWith(token, <<"-", " ">>) THEN <<Deleted(From2(token))>>
    ELSE IF StartsWith(token, <<"?", " ">>) THEN << >>
    ELSE <<From2(token)>>

\* src/UrduSpeechWriterCloud.py lines 106-111
CloudOut(token) ==
    IF StartsWith(token, <<"+", " ">>) THEN <<Inserted(From2(token))>>
    ELSE IF StartsWith(token, <<"-", " ">>) THEN <<Deleted(From2(token))>>
    ELSE <<IF StartsWith(token, <<" ", " ">>) THEN From2(token) ELSE token>>

\* the list out after the loop over the delta
RECURSIVE Out(_, _)
Out(v, diff) ==
    IF diff = << >> THEN << >>
    ELSE (IF v = "local" THEN LocalOut(Head(diff)) ELSE CloudOut(Head(diff)))
         \o Out(v, Tail(diff))

\* diff_text(old, new) of the variant
diff_text(v, old, new) == Join(Out(v, ndiff(Split(old), Split(new))), <<" ">>)

(***************************************************************************)
(* The inputs of a session                                                 *)
(***************************************************************************)
\* what a recorded clip holds
Containers == {"wav", "webm", "other"}

\* what the recognizer or the transcription model hears
Transcripts == {<<"h">>, <<"y">>}

Said(text) == Response(OK, Choices(PStr(text)))

\* what the endpoint does on the passes of a call made in a session: it times
\* out throughout, answers after a timeout, answers at once, or the connection
\* fails
Runs(first, second) ==
    {<<Timeout, Timeout>>, <<Timeout, Said(first)>>, <<Said(second), Timeout>>,
     <<ConnectionError, Said(first)>>}

TranslateRuns == Runs(ReplyPlain, <<"c">>)

TranscribeRuns == Runs(<<"h">>, <<"y">>)

ProofreadRuns == Runs(<<"b">>, ReplyObjectChanges)

\* what the user types into the text area
EditTexts == {<<"c">>}

\* what the user types into the two fields of the replace form
Words == {Empty, <<" ">>, <<"b">>, <<"c">>}

(***************************************************************************)
(* main(). The script runs anew on every widget event; an action is the    *)
(* run that one widget sets off: the block of main() that the widget's     *)
(* value enables, with the session state it leaves. st.stop() and          *)
(* st.experimental_rerun() end the run.                                    *)
(***************************************************************************)
Idle == [state |-> "idle"]

\* what a run did: the widget, how the clip fared, how the Translator's call
\* ended, whether a correction was shown and taken, whether the replace form was
\* valid, the st.warning/st.error/st.success/st.info boxes shown, and whether an
\* exception left main()
Did(op) ==
    [op |-> op, audio |-> "none", translate |-> "none", shown |-> FALSE,
     accepted |-> FALSE, valid |-> FALSE, notes |-> {}, crashed |-> FALSE]

Init ==
    /\ variant \in {"local", "cloud"}
    /\ original_urdu = Empty
    /\ urdu_edit = Empty
    /\ last_source = Empty
    /\ urdu_output_txt = << >>
    /\ urdu_output_html = << >>
    /\ last = Did("start")
    /\ call = Idle

\* a block written to a log file: the line or paragraph "Time: ..." with the
\* time of the write, then the text; by tells the automatic write from the manual
Block(by, text) == [by |-> by, text |-> text]

\* the file opened with mode "w"
WriteOver(file, block) == <<block>>

\* with open(path, "a") as f: f.write(...)
AppendTo(file, block) == Append(file, block)

LogLength == Len(urdu_output_txt) + Len(urdu_output_html)

\* open(..., "a") and f.write(...) succeed or raise; the model stops appending
\* at MaxLog blocks
WriteResults == IF LogLength < MaxLog THEN BOOLEAN ELSE {FALSE}

\* the translation made at every recording
TranslateEveryTime(original) == TRUE

\* "Translate once": line 161 (local), line 143 (cloud)
TranslateOnce(original) == ~Truthy(original)

\* the Translator's call as `last` records it
HowEnded(r) ==
    IF r.tag = "raise" THEN "raised" ELSE IF r.exhausted THEN "exhausted" ELSE "returned"

\* lines 137-144: the clip is read as WAV and, failing that, as WebM
Decodes(container) == container = "wav" \/ container = "webm"

\* local lines 135-175. container: what the clip holds; heard: the recognizer's
\* text, or Empty when it raises
RecordLocal(container, heard, outs, written) ==
    /\ variant = "local"
    /\ LET audio == IF ~(container \in {"wav", "webm"}) THEN "undecodable"
                    ELSE IF heard = Empty THEN "unrecognized" ELSE "recognized"
           did   == [Did("record") EXCEPT !.audio = audio]
       IN  IF ~Decodes(container)
           THEN /\ last' = [did EXCEPT !.notes = {"error"}]             \* st.stop()
                /\ UNCHANGED <<draft, files>>
           ELSE IF heard = Empty
           THEN /\ last' = [did EXCEPT !.notes = {"error"}]             \* st.stop()
                /\ UNCHANGED <<draft, files>>
           ELSE IF ~TranslateOnce(original_urdu)
           THEN /\ last' = [did EXCEPT !.notes = {"success"}]
                /\ UNCHANGED <<draft, files>>
           ELSE LET r    == RemoteCall("local", "translate", DefaultRetries, outs)
                    urdu == r.val.s
                IN  /\ original_urdu' = urdu
                    /\ urdu_edit' = urdu
                    /\ last_source' = heard
                    /\ urdu_output_txt' =
                           IF written THEN AppendTo(urdu_output_txt, Block("auto", urdu))
                           ELSE urdu_output_txt
                    /\ UNCHANGED urdu_output_html
                    /\ last' = [did EXCEPT
                                   !.translate = HowEnded(r),
                                   !.notes = {"success"} \cup
                                             (IF written THEN {"info"} ELSE {"warning"})]
    /\ UNCHANGED <<variant, call>>

\* the transcription taken as text whatever it says
FailureUnchecked(source_text) == FALSE

\* cloud line 138: the transcription is a failure message
Failed(source_text) == StartsWith(source_text, <<CrossMark>>)

\* how the clip fared with the transcription call
Heard(t) ==
    IF t.tag = "raise" THEN "raised" ELSE IF t.exhausted THEN "unrecognized" ELSE "recognized"

\* cloud lines 135-152. heard: the outcomes of the transcription call's passes
RecordCloud(heard, outs, written) ==
    /\ variant = "cloud"
    /\ LET t == RemoteCall("cloud", "transcribe", DefaultRetries, heard)
           source_text == t.val.s
           did == [Did("record") EXCEPT !.audio = Heard(t)]
       IN  IF t.tag = "raise"
           THEN /\ last' = [did EXCEPT !.crashed = TRUE]
                /\ UNCHANGED <<draft, files>>
           ELSE IF Failed(source_text)
           THEN /\ last' = [did EXCEPT !.notes = {"error"}]
                /\ UNCHANGED <<draft, files>>
           ELSE IF ~TranslateOnce(original_urdu)
           THEN /\ last' = [did EXCEPT !.notes = {"success"}]
                /\ UNCHANGED <<draft, files>>
           ELSE LET r == RemoteCall("cloud", "translate", DefaultRetries, outs)
                    urdu_text == r.val.s
                IN  IF r.tag = "raise"
                    THEN /\ last' = [did EXCEPT !.translate = "raised", !.crashed = TRUE,
                                                !.notes = {"success"}]
                         /\ UNCHANGED <<draft, files>>
                    ELSE /\ original_urdu' = urdu_text
                         /\ urdu_edit' = urdu_text
                         /\ last_source' = source_text
                         /\ urdu_output_html' =
                                IF written
                                THEN AppendTo(urdu_output_html, Block("auto", urdu_text))
                                ELSE urdu_output_html
                         /\ UNCHANGED urdu_output_txt
                         /\ last' = [did EXCEPT !.translate = HowEnded(r),
                                                !.crashed = ~written, !.notes = {"success"}]
    /\ UNCHANGED <<variant, call>>

\* the text area writing the typed text into original_urdu as well
EditOriginalToo(text) ==
    /\ urdu_edit' = text
    /\ original_urdu' = text
    /\ last' = Did("edit")
    /\ UNCHANGED <<variant, last_source, files, call>>

\* the text area keyed "urdu_edit": local line 179, cloud line 156
Edit(text) ==
    /\ urdu_edit' = text
    /\ last' = Did("edit")
    /\ UNCHANGED <<variant, original_urdu, last_source, files, call>>

\* the replace form is filled: local line 219, cloud line 174
BothFilled(old_word, new_word) == Strip(old_word) # Empty /\ Strip(new_word) # Empty

\* the boxes the replace form shows: local lines 219-223, cloud lines 174-176
ReplaceNotes(v, filled) ==
    IF filled THEN {"success"} ELSE IF v = "local" THEN {"warning"} ELSE {}

\* "Replace Word": local lines 217-223, cloud lines 172-176
ReplaceWord(old_word, new_word) ==
    LET filled == BothFilled(old_word, new_word)
    IN  /\ urdu_edit' = IF filled THEN Replace(urdu_edit, old_word, new_word) ELSE urdu_edit
        /\ last' = [Did("replace") EXCEPT
                       !.valid = filled, !.notes = ReplaceNotes(variant, filled)]
        /\ UNCHANGED <<variant, original_urdu, last_source, files, call>>

\* "Save to file": local lines 228-242, cloud lines 181-191
Save(written) ==
    /\ urdu_output_html' =
           IF written THEN AppendTo(urdu_output_html, Block("manual", urdu_edit))
           ELSE urdu_output_html
    /\ last' = [Did("save") EXCEPT
                   !.crashed = (variant = "cloud" /\ ~written),
                   !.notes = IF written THEN {"success"}
                             ELSE IF variant = "local" THEN {"warning"} ELSE {}]
    /\ UNCHANGED <<variant, draft, urdu_output_txt, call>>

\* "Proofread & Fix Urdu": local lines 245-268. use_corrected: what the button
\* "Use corrected" returns where the correction is shown
ProofreadLocal(outs, use_corrected) ==
    /\ variant = "local"
    /\ IF Strip(urdu_edit) = Empty
       THEN /\ last' = [Did("proofread") EXCEPT !.notes = {"warning"}]
            /\ UNCHANGED urdu_edit
       ELSE LET r      == RemoteCall("local", "proofread", DefaultRetries, outs)
                result == r.val.fst
                err    == r.val.snd
            IN  IF IsTrue(err)
                THEN /\ last' = [Did("proofread") EXCEPT !.notes = {"error"}]
                     /\ UNCHANGED urdu_edit
                ELSE /\ urdu_edit' = IF use_corrected THEN result.corrected.s ELSE urdu_edit
                     /\ last' = [Did("proofread") EXCEPT
                                    !.shown = TRUE, !.accepted = use_corrected,
                                    !.notes = {}]
    /\ UNCHANGED <<variant, original_urdu, last_source, files, call>>

\* "Proofread Urdu": cloud lines 194-201
ProofreadCloud(outs) ==
    /\ variant = "cloud"
    /\ LET r         == RemoteCall("cloud", "proofread", DefaultRetries, outs)
           corrected == r.val.fst
       IN  IF r.tag = "raise"
           THEN /\ last' = [Did("proofread") EXCEPT !.crashed = TRUE, !.notes = {}]
                /\ UNCHANGED urdu_edit
           ELSE IF ~IsTrue(corrected)
           THEN /\ last' = [Did("proofread") EXCEPT !.notes = {}]
                /\ UNCHANGED urdu_edit
           ELSE IF corrected.t # "str"                      \* diff_text: no .split
           THEN /\ last' = [Did("proofread") EXCEPT !.crashed = TRUE, !.notes = {}]
                /\ UNCHANGED urdu_edit
           ELSE /\ urdu_edit' = corrected.s
                /\ last' = [Did("proofread") EXCEPT !.shown = TRUE, !.notes = {}]
    /\ UNCHANGED <<variant, original_urdu, last_source, files, call>>

\* "Clear": local lines 270-274, cloud lines 204-208
Clear ==
    /\ original_urdu' = Empty
    /\ urdu_edit' = Empty
    /\ last_source' = Empty
    /\ last' = Did("clear")
    /\ UNCHANGED <<variant, files, call>>

Next ==
    \/ \E container \in Containers, heard \in Transcripts \cup {Empty},
          outs \in TranslateRuns, written \in WriteResults :
          RecordLocal(container, heard, outs, written)
    \/ \E heard \in TranscribeRuns, outs \in TranslateRuns, written \in WriteResults :
          RecordCloud(heard, outs, written)
    \/ \E text \in EditTexts : Edit(text)
    \/ \E old_word \in Words, new_word \in Words : ReplaceWord(old_word, new_word)
    \/ \E written \in WriteResults : Save(written)
    \/ \E outs \in ProofreadRuns, use_corrected \in BOOLEAN :
          ProofreadLocal(outs, use_corrected)
    \/ \E outs \in ProofreadRuns : ProofreadCloud(outs)
    \/ Clear

Spec == Init /\ [][Next]_vars

(***************************************************************************)
(* The remote calls on their own: any retries up to MaxRetries and any     *)
(* behaviour of the endpoint on each pass.                                 *)
(***************************************************************************)
Contents ==
    {PNone} \cup
    {PStr(t) : t \in {Empty, <<" ">>, ReplyPlain, ReplyObject, ReplyObjectChanges,
                      ReplyBadChanges, ReplyNoKey, ReplyArray, ReplyNumber}}

Outcomes ==
    {Timeout, ConnectionError, Response(OK, NotJson), Response(OK, NoChoices),
     Response(500, NoChoices)} \cup {Response(OK, Choices(c)) : c \in Contents}

InitCalls ==
    /\ variant \in {"local", "cloud"}
    /\ original_urdu = Empty
    /\ urdu_edit = Empty
    /\ last_source = Empty
    /\ urdu_output_txt = << >>
    /\ urdu_output_html = << >>
    /\ last = Did("start")
    /\ \E fn \in Functions[variant], retries \in 0..MaxRetries :
          \E outs \in [1..retries -> Outcomes] :
             call = [state |-> "pending", fn |-> fn, retries |-> retries, outs |-> outs]

\* the call is made and what it did is kept
Invoke(fn) ==
    /\ call.state = "pending"
    /\ call.fn = fn
    /\ LET r == RemoteCall(variant, fn, call.retries, call.outs)
       IN  call' = [state |-> "done", fn |-> fn, retries |-> call.retries,
                    outs |-> call.outs, tag |-> r.tag, val |-> r.val,
                    effects |-> r.effects, exhausted |-> r.exhausted]
    /\ UNCHANGED <<variant, draft, files, last>>

Transcribe == Invoke("transcribe")

Translate == Invoke("translate")

Proofread == Invoke("proofread")

NextCalls == Transcribe \/ Translate \/ Proofread

SpecCalls == InitCalls /\ [][NextCalls]_vars

(***************************************************************************)
(* diff_text on its own: any two texts of up to MaxTokens words between    *)
(* them. The words hold no blank and none of the characters of the markup. *)
(***************************************************************************)
\* a word, a word close to none of the others, and two words that differ by
\* one character
Tokens == {<<"b">>, <<"a", "a", "a">>, <<"a", "a", "a", "b">>, <<"a", "a", "a", "c">>}

\* the lists of n words
RECURSIVE TokenLists(_)
TokenLists(n) ==
    IF n = 0 THEN {<< >>}
    ELSE {<<t>> \o rest : t \in Tokens, rest \in TokenLists(n - 1)}

\* what stands around and between the words of a text: one blank between
\* them, or two blanks between and after them
Spacings == {<<" ">>, <<" ", " ">>}

\* the text of the words with the spacing
Text(words, spacing) ==
    Join(words, spacing) \o (IF Len(spacing) > 1 /\ words # << >> THEN spacing ELSE Empty)

InitDiff ==
    /\ variant \in {"local", "cloud"}
    /\ original_urdu = Empty
    /\ urdu_edit = Empty
    /\ last_source = Empty
    /\ urdu_output_txt = << >>
    /\ urdu_output_html = << >>
    /\ last = Did("start")
    /\ \E m \in 0..MaxTokens, spacing \in Spacings :
          \E n \in 0..(MaxTokens - m) :
             \E a \in TokenLists(m), b \in TokenLists(n) :
                call = [state |-> "pending", fn |-> "diff_text",
                        old |-> Text(a, spacing), new |-> Text(b, spacing)]

\* diff_text(old, new) is called and what it returns is kept
DiffText ==
    /\ call.state = "pending"
    /\ call' = [state |-> "done", fn |-> "diff_text", old |-> call.old, new |-> call.new,
                delta |-> ndiff(Split(call.old), Split(call.new)),
                out |-> diff_text(variant, call.old, call.new)]
    /\ UNCHANGED <<variant, draft, files, last>>

NextDiff == DiffText

SpecDiff == InitDiff /\ [][NextDiff]_vars

(***************************************************************************)
(* The replace form on its own: a draft whose text the user has typed, any *)
(* text of up to MaxText characters, and the two fields of the form filled.*)
(***************************************************************************)
RECURSIVE TextsOver(_, _)
TextsOver(chars, n) ==
    IF n = 0 THEN {Empty}
    ELSE LET shorter == TextsOver(chars, n - 1)
         IN  shorter \cup {<<c>> \o t : c \in chars, t \in {u \in shorter : Len(u) = n - 1}}

DraftTexts == TextsOver({"a", "b", " "}, MaxText)

OldWords == {Empty, <<" ">>, <<"a">>, <<"A">>, <<"a", "a">>, <<"a", "b">>, <<"a", " ">>}

NewWords == {Empty, <<" ">>, <<"x">>, <<"a", "a">>}

\* the values of the two text_input widgets of the form
Form(old_word, new_word) == [state |-> "form", old_word |-> old_word, new_word |-> new_word]

InitReplace ==
    /\ variant \in {"local", "cloud"}
    /\ original_urdu = <<"b">>
    /\ urdu_edit \in DraftTexts
    /\ last_source = <<"h">>
    /\ urdu_output_txt = << >>
    /\ urdu_output_html = << >>
    /\ last = Did("edit")
    /\ \E old_word \in OldWords, new_word \in NewWords : call = Form(old_word, new_word)

\* the form is submitted with what its fields hold; the model submits it as long
\* as the text is of up to MaxText characters
Submit ==
    /\ call.state = "form"
    /\ Len(urdu_edit) <= MaxText
    /\ ReplaceWord(call.old_word, call.new_word)

NextReplace == Submit

SpecReplace == InitReplace /\ [][NextReplace]_vars

(***************************************************************************)
(* Properties of a session (Spec)                                          *)
(***************************************************************************)
Range(f) == {f[x] : x \in DOMAIN f}

\* a text that opens with the failure marker
IsFailureText(text) == StartsWith(text, <<CrossMark>>)

\* C1: once original_urdu is non-empty, no run of main() changes it except a
\* Clear, which empties it; a recording made while a draft exists leaves it as
\* it is.
C1_OriginalSetOnce ==
    [][(original_urdu # Empty /\ original_urdu' # original_urdu)
          => (last'.op = "clear" /\ original_urdu' = Empty)]_vars

\* a clip was recognized while a draft existed
C1_RecordedOverDraft ==
    /\ last.op = "record"
    /\ last.audio = "recognized"
    /\ last.translate = "none"
    /\ original_urdu # Empty

\* C2: after a recording whose translation call used up its retries, the failure
\* message is neither in original_urdu nor in urdu_edit nor in a log file, and
\* original_urdu is still empty, so that a later recording can originate a draft.
C2_SentinelNotStored ==
    (last.op = "record" /\ last.translate = "exhausted")
        => /\ original_urdu = Empty
           /\ ~IsFailureText(urdu_edit)
           /\ \A i \in DOMAIN urdu_output_txt : ~IsFailureText(urdu_output_txt[i].text)
           /\ \A i \in DOMAIN urdu_output_html : ~IsFailureText(urdu_output_html[i].text)

\* C7: a run of the proofread button changes urdu_edit only when the correction
\* was shown and the user took it; otherwise urdu_edit stays as it was.
C7_ProofreadNeedsAccept ==
    [][(last'.op = "proofread" /\ urdu_edit' # urdu_edit)
          => (last'.shown /\ last'.accepted)]_vars

\* C8: Clear empties original_urdu, urdu_edit and last_source, and the recording
\* that follows it, when its clip is recognized, originates a draft: original_urdu
\* and urdu_edit hold what the Translator returned and last_source the transcript.
C8_ClearThenNewDraft ==
    [][/\ last'.op = "clear"
            => (original_urdu' = Empty /\ urdu_edit' = Empty /\ last_source' = Empty)
       /\ (last.op = "clear" /\ last'.op = "record" /\ last'.audio = "recognized")
            => /\ last'.translate \in {"returned", "exhausted"}
               /\ original_urdu' = urdu_edit'
               /\ last_source' \in Transcripts]_vars

\* C9: a recording whose clip does not decode, or whose recognition or
\* transcription fails, calls no Translator and leaves the draft and the log
\* files as they were.
C9_FailedClipNoEffect ==
    [][(last'.op = "record" /\ last'.audio \in {"undecodable", "unrecognized", "raised"})
          => (last'.translate = "none" /\ UNCHANGED <<draft, files>>)]_vars

\* a clip was not recognized while no draft existed
C9_ClipNotRecognized ==
    /\ last.op = "record"
    /\ last.audio = "unrecognized"
    /\ original_urdu = Empty

\* C10: a replace submission with a word that is empty after trimming leaves
\* urdu_edit as it was and shows a warning.
C10_EmptyWordWarns ==
    [][(last'.op = "replace" /\ ~last'.valid)
          => (urdu_edit' = urdu_edit /\ "warning" \in last'.notes)]_vars

(***************************************************************************)
(* Properties of the remote calls (SpecCalls)                              *)
(***************************************************************************)
\* the endpoint answers with a text
Succeeds(o) ==
    /\ o.kind = "response"
    /\ o.status = OK
    /\ o.body.json
    /\ o.body.choices
    /\ o.body.content.t = "str"

\* a translation call of at least one pass that meets timeouts until its last
\* pass, which succeeds
TimeoutsThenSuccess ==
    /\ call.state = "done"
    /\ call.fn = "translate"
    /\ call.retries >= 1
    /\ \A i \in 1..(call.retries - 1) : call.outs[i] = Timeout
    /\ Succeeds(call.outs[call.retries])

\* n failed passes, each a request, a warning and a wait of 2, then one request
FailedPassesThenPost(n) ==
    [i \in 1..(3 * n + 1) |->
        IF i = 3 * n + 1 \/ i % 3 = 1 THEN Post
        ELSE IF i % 3 = 2 THEN Warning ELSE Sleep(2)]

\* C3: a translation call whose first retries-1 passes time out and whose last
\* pass succeeds returns the translation, not the failure message, and has
\* waited 2 exactly once after each timed-out pass.
C3_RetryThenSuccess ==
    TimeoutsThenSuccess
        => /\ call.tag = "return"
           /\ call.val = PStr(Strip(call.outs[call.retries].body.content.s))
           /\ ~call.exhausted
           /\ call.effects = FailedPassesThenPost(call.retries - 1)

\* such a call with at least one timed-out pass
C3_RetriedCall == TimeoutsThenSuccess /\ call.retries >= 2

\* C4: when every pass times out, the Translator returns its failure message and
\* the Proofreader returns None with a non-empty error, in both variants.
C4_AllTimeouts ==
    (/\ call.state = "done"
     /\ call.retries >= 1
     /\ \A i \in DOMAIN call.outs : call.outs[i] = Timeout)
        => /\ call.fn = "translate"
                => (call.tag = "return" /\ call.val.t = "str" /\ IsFailureText(call.val.s))
           /\ call.fn = "proofread"
                => /\ call.tag = "return"
                   /\ call.val.fst = PNone
                   /\ call.val.snd.t = "str"
                   /\ call.val.snd.s # Empty

\* an exception that is not a timeout: the connection fails, or the body is
\* not JSON
ThrowsOther(o) == o.kind = "error" \/ (o.kind = "response" /\ ~o.body.json)

\* C5: a pass that fails with an exception other than a timeout is handled as a
\* timeout is: the call does what it would have done had that pass timed out,
\* and no exception leaves it.
C5_OtherExceptionLikeTimeout ==
    call.state = "done"
        => LET timed == [i \in DOMAIN call.outs |->
                            IF ThrowsOther(call.outs[i]) THEN Timeout ELSE call.outs[i]]
               r == RemoteCall(variant, call.fn, call.retries, timed)
           IN  /\ call.tag # "raise"
               /\ call.tag = r.tag
               /\ call.val = r.val
               /\ call.effects = r.effects

\* a reply text that is not a JSON object with a string "corrected"
NotTheAskedJson(text) ==
    LET parsed == JsonLoads(text)
    IN  ~parsed.ok \/ parsed.val.t # "dict" \/ parsed.val.corrected.t # "str"

\* the successful result whose corrected text is text and whose change list is
\* empty, as each variant returns it
RawFallback(v, text) ==
    IF v = "local" THEN Pair(PDict(PStr(text), PList(<< >>)), PNone)
    ELSE Pair(PStr(text), PList(<< >>))

\* C6: a proofread call whose first pass is answered with a non-empty text that
\* is not the JSON asked for returns that raw text as the corrected text with no
\* changes and no error, after that one request.
C6_RawTextFallback ==
    (/\ call.state = "done"
     /\ call.fn = "proofread"
     /\ call.retries >= 1
     /\ Succeeds(call.outs[1])
     /\ call.outs[1].body.content.s # Empty
     /\ NotTheAskedJson(call.outs[1].body.content.s))
        => /\ call.tag = "return"
           /\ call.val = RawFallback(variant, call.outs[1].body.content.s)
           /\ call.effects = <<Post>>

(***************************************************************************)
(* Properties of diff_text (SpecDiff)                                      *)
(***************************************************************************)
\* a token of the output wrapped in the two-character mark
IsMarked(t, mark) ==
    Len(t) >= 4 /\ SubSeq(t, 1, 2) = mark /\ SubSeq(t, Len(t) - 1, Len(t)) = mark

IsInsertion(t) == IsMarked(t, <<"*", "*">>)

IsDeletion(t) == IsMarked(t, <<"~", "~">>)

\* the token without its markup
Unmarked(t) ==
    IF IsInsertion(t) \/ IsDeletion(t) THEN SubSeq(t, 3, Len(t) - 2) ELSE t

\* the tokens of an output read without those that carry the mark `without`
RECURSIVE Reading(_, _)
Reading(tokens, without) ==
    IF tokens = << >> THEN << >>
    ELSE (IF IsMarked(Head(tokens), without) THEN << >> ELSE <<Unmarked(Head(tokens))>>)
         \o Reading(Tail(tokens), without)

\* C11: the output of diff_text, read token by token, gives the tokens of new in
\* order once the deletions are left out and the markup is taken off, and the
\* tokens of old in order once the insertions are left out.
C11_DiffReconstructs ==
    call.state = "done"
        => /\ Reading(Split(call.out), <<"~", "~">>) = Split(call.new)
           /\ Reading(Split(call.out), <<"*", "*">>) = Split(call.old)

\* an entry of the delta that points at the changed characters
IsHint(line) == StartsWith(line, <<"?", " ">>)

\* the delta without those entries
RECURSIVE NoHints(_)
NoHints(diff) ==
    IF diff = << >> THEN << >>
    ELSE (IF IsHint(Head(diff)) THEN << >> ELSE <<Head(diff)>>) \o NoHints(Tail(diff))

\* C12: in both variants a "? " entry of the delta adds nothing to the output:
\* the output is the rendering of the other entries alone.
C12_HintsDropped ==
    call.state = "done"
        => /\ call.out = Join(Out(variant, NoHints(call.delta)), <<" ">>)
           /\ \A k \in DOMAIN call.out : call.out[k] # "?"

\* C13 as stated: diff_text(x, x) is x itself, with no insertion and no deletion
\* markup.
C13_SameTextUnchanged ==
    (call.state = "done" /\ call.old = call.new)
        => /\ call.out = call.old
           /\ \A t \in Range(Split(call.out)) : ~IsInsertion(t) /\ ~IsDeletion(t)

\* C13 amended: diff_text(x, x) is the tokens of x in order, joined by single
\* blanks, with no insertion and no deletion markup; it is x itself when x has
\* single blanks between its tokens and none around them.
C13_SameTextTokens ==
    (call.state = "done" /\ call.old = call.new)
        => /\ call.out = Join(Split(call.old), <<" ">>)
           /\ \A t \in Range(Split(call.out)) : ~IsInsertion(t) /\ ~IsDeletion(t)
           /\ call.old = Join(Split(call.old), <<" ">>) => call.out = call.old

\* a text of several tokens was compared with itself
C13_ComparedWithItself ==
    /\ call.state = "done"
    /\ call.old = call.new
    /\ Len(Split(call.old)) >= 2
    /\ call.out # call.old

(***************************************************************************)
(* More properties of a session (Spec)                                     *)
(***************************************************************************)
IsPrefix(s, t) == Len(s) <= Len(t) /\ SubSeq(t, 1, Len(s)) = s

\* C14: the log files only grow at their ends: after any run of main() each file
\* begins with what it held before, a run adds at most one block, and only a
\* recording or a save adds one; Clear leaves the files as they are.
C14_AppendOnly ==
    [][/\ IsPrefix(urdu_output_txt, urdu_output_txt')
       /\ IsPrefix(urdu_output_html, urdu_output_html')
       /\ Len(urdu_output_txt') + Len(urdu_output_html') <= LogLength + 1
       /\ files' # files => last'.op \in {"record", "save"}]_vars

\* the draft was cleared after an automatic and a manual write
C14_ClearedAfterWrites ==
    /\ last.op = "clear"
    /\ \E i \in DOMAIN urdu_output_html : urdu_output_html[i].by = "manual"
    /\ \E f \in {urdu_output_txt, urdu_output_html} :
          \E i \in DOMAIN f : f[i].by = "auto"

(***************************************************************************)
(* Properties of the replace form (SpecReplace)                            *)
(***************************************************************************)
\* old stands in s at position i
OccursAt(s, old, i) == i + Len(old) - 1 <= Len(s) /\ SubSeq(s, i, i + Len(old) - 1) = old

\* the first position from `from` on at which old stands in s, 0 when there is
\* none
FirstFrom(s, old, from) ==
    LET at == {i \in from..Len(s) : OccursAt(s, old, i)}
    IN  IF at = {} THEN 0 ELSE CHOOSE i \in at : \A k \in at : i <= k

\* the positions of the occurrences of old in s that do not overlap, taken from
\* the left
RECURSIVE Occurrences(_, _, _)
Occurrences(s, old, from) ==
    LET i == FirstFrom(s, old, from)
    IN  IF i = 0 THEN {} ELSE {i} \cup Occurrences(s, old, i + Len(old))

\* s is t with new in the place of old at each position of at, and every other
\* character of t kept where it stood: between two places, before the first and
\* after the last
Substituted(s, t, old, new, at) ==
    LET n      == Cardinality(at)
        nth(k) == CHOOSE i \in at : Cardinality({m \in at : m < i}) = k - 1
        \* where the k-th place begins in s
        to(k)  == nth(k) + (k - 1) * (Len(new) - Len(old))
        \* the characters kept before the k-th place, the last stretch for k = n + 1
        gap(k) == SubSeq(t, IF k = 1 THEN 1 ELSE nth(k - 1) + Len(old),
                            IF k = n + 1 THEN Len(t) ELSE nth(k) - 1)
        gapAt(k) == IF k = 1 THEN 1 ELSE to(k - 1) + Len(new)
    IN  /\ Len(s) = Len(t) + n * (Len(new) - Len(old))
        /\ \A k \in 1..n : SubSeq(s, to(k), to(k) + Len(new) - 1) = new
        /\ \A k \in 1..(n + 1) : SubSeq(s, gapAt(k), gapAt(k) + Len(gap(k)) - 1) = gap(k)

\* C15: a submission of the replace form with both words non-empty after
\* trimming puts the new word in the place of every occurrence of the old word in
\* urdu_edit, character for character and also inside longer words, the
\* occurrences taken from the left without overlap, and changes nothing else.
C15_ReplacesEveryOccurrence ==
    [][(last'.op = "replace" /\ BothFilled(call.old_word, call.new_word))
          => /\ Substituted(urdu_edit', urdu_edit, call.old_word, call.new_word,
                            Occurrences(urdu_edit, call.old_word, 1))
             /\ (urdu_edit = <<"a", " ", "b", " ", "a">> /\ call.old_word = <<"a">>
                    /\ call.new_word = <<"x">>)
                   => urdu_edit' = <<"x", " ", "b", " ", "x">>
             /\ UNCHANGED <<original_urdu, last_source, files>>]_vars

\* "a" was replaced by "x" in "a b a"
C15_ReplacedTwice ==
    /\ last.op = "replace"
    /\ last.valid
    /\ call.old_word = <<"a">>
    /\ call.new_word = <<"x">>
    /\ urdu_edit = <<"x", " ", "b", " ", "x">>

\* C17: a manual edit, a word replacement and a proofreading run, the taking of
\* its correction included, leave original_urdu and last_source as they were;
\* last_source changes only in a Clear or in the recording that sets
\* original_urdu from empty.
C17_OnlyCurrentChanges ==
    [][/\ last'.op \in {"edit", "replace", "proofread"}
            => UNCHANGED <<original_urdu, last_source, files>>
       /\ last_source' # last_source
            => \/ last'.op = "clear"
               \/ /\ last'.op = "record"
                  /\ original_urdu = Empty
                  /\ last'.translate \in {"returned", "exhausted"}
                  /\ original_urdu' # Empty]_vars

\* a correction was taken into a draft and differs from the first translation
C17_CorrectionTaken ==
    /\ last.op = "proofread"
    /\ last.accepted
    /\ original_urdu # Empty
    /\ urdu_edit # original_urdu
    /\ last_source # Empty

\* the file that a recording writes to
AutoLog(v, txt, html) == IF v = "local" THEN txt ELSE html

\* the automatic write was made and the file system refused it
WriteRefused ==
    IF variant = "local" THEN "warning" \in last.notes
    ELSE last.crashed /\ last.translate \in {"returned", "exhausted"}

\* C19: a recording appends a block to the log, the file system permitting, if
\* and only if its clip was recognized and original_urdu was empty when it
\* began; the block holds the text that the recording stores in original_urdu
\* and urdu_edit; a recording made while a draft exists appends nothing.
C19_AutoLogIff ==
    [][last'.op = "record"
          => LET recognized == last'.audio = "recognized"
                 appended   == files' # files
             IN  /\ appended
                      => /\ recognized
                         /\ original_urdu = Empty
                         /\ original_urdu' = urdu_edit'
                         /\ AutoLog(variant, urdu_output_txt', urdu_output_html')
                               = Append(AutoLog(variant, urdu_output_txt, urdu_output_html),
                                        Block("auto", original_urdu'))
                         /\ AutoLog(variant, urdu_output_html', urdu_output_txt')
                               = AutoLog(variant, urdu_output_html, urdu_output_txt)
                 /\ (recognized /\ original_urdu = Empty) => (appended \/ WriteRefused')
                 /\ original_urdu # Empty => ~appended]_vars

(***************************************************************************)
(* More properties of the remote calls (SpecCalls)                         *)
(***************************************************************************)
\* the requests among the effects of a call
Posts(effects) == Cardinality({k \in DOMAIN effects : effects[k] = Post})

\* a response the function can use: a JSON body with a text under "choices",
\* with status 200 where the cloud variant looks at the status, and a non-empty
\* text for the proofreader
Usable(v, fn, o) ==
    /\ o.kind = "response"
    /\ v = "cloud" => o.status = OK
    /\ o.body.json
    /\ o.body.choices
    /\ o.body.content.t = "str"
    /\ fn = "proofread" => o.body.content.s # Empty

\* C16: whatever the endpoint does on each pass, a call ends, by a return or by
\* an exception, after at most `retries` requests; it sends none after the first
\* pass with a usable response; and with retries = 0 it sends none and returns
\* its failure value.
C16_BoundedRequests ==
    call.state = "done"
        => /\ call.tag \in {"return", "raise"}
           /\ Posts(call.effects) <= call.retries
           /\ \A k \in DOMAIN call.outs :
                 Usable(variant, call.fn, call.outs[k]) => Posts(call.effects) <= k
           /\ call.retries = 0
                 => /\ call.effects = << >>
                    /\ call.tag = "return"
                    /\ call.exhausted
                    /\ call.fn \in {"translate", "transcribe"}
                          => (call.val.t = "str" /\ IsFailureText(call.val.s))
                    /\ call.fn = "proofread" => call.val.fst = PNone

\* a call with retries left answered on its first pass
C16_AnsweredAtOnce ==
    /\ call.state = "done"
    /\ call.retries >= 2
    /\ Usable(variant, call.fn, call.outs[1])
    /\ Posts(call.effects) = 1
    /\ call.tag = "return"
\* a response that arrives and carries nothing to use: a JSON body without
\* "choices", a status other than 200 in the cloud variant, or an empty reply
\* text for the proofreader
Unusable(v, fn, o) ==
    /\ o.kind = "response"
    /\ \/ v = "cloud" /\ o.status # OK
       \/ o.body.json /\ ~o.body.choices
       \/ fn = "proofread" /\ o.body.json /\ o.body.choices /\ ~IsTrue(o.body.content)

\* where the k-th request stands among the effects of a call
PostAt(effects, k) ==
    CHOOSE p \in DOMAIN effects :
        effects[p] = Post /\ Posts(SubSeq(effects, 1, p)) = k

\* C18: in translate and proofread a pass that gets such a response is followed
\* at once, with no warning and no wait, by the request of the next pass; when it
\* is the last pass of the budget, or every pass is of this kind, the call
\* returns its failure value.
C18_UnusablePassIsSilent ==
    (call.state = "done" /\ call.fn \in {"translate", "proofread"})
        => \A k \in 1..Posts(call.effects) :
              Unusable(variant, call.fn, call.outs[k])
                 => LET p == PostAt(call.effects, k)
                    IN  IF p < Len(call.effects) THEN call.effects[p + 1] = Post
                        ELSE /\ k = call.retries
                             /\ call.tag = "return"
                             /\ call.exhausted
\* C20: every return of openrouter_proofread_urdu is a pair (result, error) of
\* which exactly one is None: a result comes with no error and is a dict with a
\* str under "corrected" and a list under "changes"; no result comes with the
\* non-empty failure message; and the caller's test of the error, `if err`, lets
\* the correction be shown only when the error is None.
C20_ResultOrError ==
    (call.state = "done" /\ variant = "local" /\ call.fn = "proofread")
        => LET result == call.val.fst
               err    == call.val.snd
           IN  /\ call.tag = "return"
               /\ call.val.t = "tuple"
               /\ (result = PNone) # (err = PNone)
               /\ result # PNone
                     => /\ result.t = "dict"
                        /\ result.corrected.t = "str"
                        /\ result.changes.t = "list"
               /\ result = PNone => (err.t = "str" /\ err.s # Empty /\ IsFailureText(err.s))
               /\ ~IsTrue(err) => err = PNone

====
